---- MODULE Spec2Model ----
(***************************************************************************)
(* A model of goMesh's serial frame assembler (radio.go): the three read   *)
(* loops ReadResponseWithTypes, ReadResponse and ReadResponseBatch, the    *)
(* text classifier (isTextData, extractTextFromBytes and helpers), the     *)
(* transport they read from, the frame validator validatePacketStructure   *)
(* and the message codec (FormatReplyMessage, FormatReactionMessage,       *)
(* ParseMessage).  Bytes are the integers 0..255, a []byte is a sequence   *)
(* of them; the codec's strings are sequences of code points.              *)
(***************************************************************************)
EXTENDS Integers, Sequences, FiniteSets, TLC

VARIABLES
    fn,                 \* the function the current session runs
    pc,                 \* "idle" (no call yet), "reading" (in the loop), "done" (returned)
    pending,            \* transport: bytes the device has queued, not yet read
    segs,               \* transport: number of chunks the device has sent
    delivered,          \* history: bytes the session has read successfully, in order
    processedBytes,     \* the accumulation buffer
    procPos,            \* history: for each byte of processedBytes, its index in delivered
    textBuffer,         \* the text run (ReadResponseWithTypes only)
    textPos,            \* history: for each byte of textBuffer, its index in delivered
    repeatByteCounter,
    previousByte,
    ProtobufPackets,    \* frames returned: the decoded payloads, in order
    TextMessages,       \* responseSet.TextMessages
    AllResponses,       \* responseSet.AllResponses
    maxResponses,       \* ReadResponseBatch's limit
    responseCount,      \* ReadResponseBatch's counter
    cause,              \* why the loop ended: "none", "eof", "deadline", "repeat", "error", "limit"
    lastRead,           \* the outcome of the most recent transport read
    retNil,             \* TRUE when the call returned a nil result
    retErr,             \* the error the call returned: "nil" or "ioerr"
    logLeftover,        \* the bytes logged as unprocessed at the end of the call
    frameRaw,           \* history: per returned frame, its bytes and their indices in delivered
    textSeen,           \* history: indices in delivered of the bytes put into the text run
    twin,               \* history: the locals ReadResponse would hold after the bytes
                        \* this session has read
    sessions,           \* the number of calls made so far
    resumed,            \* history: the session before this one ended with bytes in its buffer
    tdata,              \* classifier harness: the byte sequence under test
    tcount,             \* classifier harness: the number of tokens tdata is made of
    tphase,             \* classifier harness: "build" or "classified"
    tresult,            \* classifier harness: isTextData(tdata) once classified
    tlines,             \* classifier harness: extractTextFromBytes(tdata) once classified
    tclean,             \* classifier harness: cleanANSIEscapeSequences(tdata) once classified
    tagain,             \* classifier harness: cleanANSIEscapeSequences(tclean) once classified
    tkept,              \* classifier harness: isPrintableText of tdata taken as one line
    vpacket,            \* validator harness: the slice under test
    vcount,             \* validator harness: the number of parts vpacket is made of
    vphase,             \* validator harness: "build" or "validated"
    verr,               \* validator harness: the error validatePacketStructure returned
    vlen,               \* validator harness: the expectedLength it computed, -1 if none
    cphase,             \* codec harness: "start", "formatted" or "parsed"
    cin,                \* codec harness: the operation applied and its arguments
    cmsg,               \* codec harness: the message text (an encoder's result or a received text)
    cparsed,            \* codec harness: ParseMessage(cmsg) once parsed
    gpc,                \* GetRadioInfo: "start", "initial" (before the first read),
                        \* "loop" (at the retry loop's condition), "returned"
    checks,             \* GetRadioInfo: the retry counter
    radioResponses,     \* GetRadioInfo: the number of frames of the named result
    err,                \* GetRadioInfo: the named result err
    reads,              \* history: the result of each ReadResponse call GetRadioInfo made
    infoRet             \* GetRadioInfo: what it returned

vars == <<fn, pc, pending, segs, delivered, processedBytes, procPos,
          textBuffer, textPos, repeatByteCounter, previousByte, ProtobufPackets,
          TextMessages, AllResponses, maxResponses, responseCount, cause,
          lastRead, retNil, retErr, logLeftover, frameRaw, textSeen, twin,
          sessions, resumed, tdata, tcount, tphase, tresult, tlines, tclean, tagain,
          tkept,
          vpacket, vcount, vphase, verr, vlen, cphase, cin, cmsg, cparsed,
          gpc, checks, radioResponses, err, reads, infoRet>>

----------------------------------------------------------------------------
(* Program constants *)

start1 == 148
start2 == 195
headerLen == 4
maxToFromRadioSzie == 512
RepeatLimit == 20

(* Byte codes used below *)
ESC == 27
LF == 10
CR == 13
TAB == 9
SP == 32
RuneError == 65533

----------------------------------------------------------------------------
(* Sequence helpers *)

Last(s) == s[Len(s)]

\* strings.Contains(s, pat)
Contains(s, pat) ==
    \E i \in 0..(Len(s) - Len(pat)) : SubSeq(s, i + 1, i + Len(pat)) = pat

----------------------------------------------------------------------------
(* unicode.IsPrint, unicode.IsSpace and UTF-8 decoding *)

\* Code points above Latin-1 that unicode.IsPrint rejects (format and space
\* characters); every other code point above Latin-1 that the model's inputs
\* can produce is a letter, mark, number, punctuation or symbol.
NonPrintHigh ==
    {5760, 6158, 8232, 8233, 8239, 8287, 12288, 65279}
        \cup (8192..8207) \cup (8234..8238) \cup (8288..8303) \cup (65529..65531)

\* unicode.IsPrint(r): for r <= U+00FF the Latin-1 property table (graphic
\* characters and the ASCII space; U+00A0 and U+00AD are not printable)
IsPrint(r) ==
    IF r <= 255
    THEN (r >= 32 /\ r <= 126) \/ (r >= 161 /\ r # 173)
    ELSE r \notin NonPrintHigh

\* unicode.IsSpace(r)
IsSpace(r) ==
    r \in {9, 10, 11, 12, 13, 32, 133, 160, 5760, 8232, 8233, 8239, 8287, 12288}
        \cup (8192..8202)

IsCont(b) == b >= 128 /\ b <= 191

\* utf8.DecodeRuneInString(s[i:]) as the range loop uses it: the rune that
\* starts at index i (1-based) and its width; an invalid byte is U+FFFD, width 1
DecodeRune(s, i) ==
    LET b0 == s[i]
        n  == Len(s)
    IN  IF b0 < 128 THEN [r |-> b0, w |-> 1]
        ELSE IF b0 >= 194 /\ b0 <= 223 /\ i + 1 <= n /\ IsCont(s[i + 1])
        THEN [r |-> (b0 - 192) * 64 + (s[i + 1] - 128), w |-> 2]
        ELSE IF b0 >= 224 /\ b0 <= 239 /\ i + 2 <= n
                /\ s[i + 1] >= (IF b0 = 224 THEN 160 ELSE 128)
                /\ s[i + 1] <= (IF b0 = 237 THEN 159 ELSE 191)
                /\ IsCont(s[i + 2])
        THEN [r |-> (b0 - 224) * 4096 + (s[i + 1] - 128) * 64 + (s[i + 2] - 128),
              w |-> 3]
        ELSE IF b0 >= 240 /\ b0 <= 244 /\ i + 3 <= n
                /\ s[i + 1] >= (IF b0 = 240 THEN 144 ELSE 128)
                /\ s[i + 1] <= (IF b0 = 244 THEN 143 ELSE 191)
                /\ IsCont(s[i + 2]) /\ IsCont(s[i + 3])
        THEN [r |-> (b0 - 240) * 262144 + (s[i + 1] - 128) * 4096
                        + (s[i + 2] - 128) * 64 + (s[i + 3] - 128),
              w |-> 4]
        ELSE [r |-> RuneError, w |-> 1]

\* utf8.RuneLen(r): the number of bytes of r's encoding
RuneLen(r) == IF r < 128 THEN 1 ELSE IF r < 2048 THEN 2 ELSE IF r < 65536 THEN 3 ELSE 4

----------------------------------------------------------------------------
(* Text classifier *)

\* the debugPatterns list of isTextData, as byte sequences
debugPatterns ==
    << <<68, 69, 66, 85, 71>>,                      \* "DEBUG"
       <<73, 78, 70, 79>>,                          \* "INFO"
       <<87, 65, 82, 78>>,                          \* "WARN"
       <<69, 82, 82, 79, 82>>,                      \* "ERROR"
       <<84, 82, 65, 67, 69>>,                      \* "TRACE"
       <<83, 101, 114, 105, 97, 108, 67, 111, 110, 115, 111, 108, 101>>,
                                                    \* "SerialConsole"
       <<83, 101, 110, 100, 32, 107, 110, 111, 119, 110, 32, 110, 111, 100,
         101, 115>>,                                \* "Send known nodes"
       <<27, 91>>,                                  \* "\x1b["
       <<124, 32, 49, 50, 58>>, <<124, 32, 49, 51, 58>>,   \* "| 12:", "| 13:"
       <<124, 32, 49, 52, 58>>, <<124, 32, 49, 53, 58>>,
       <<124, 32, 49, 54, 58>>, <<124, 32, 49, 55, 58>>,
       <<124, 32, 49, 56, 58>>, <<124, 32, 49, 57, 58>>,
       <<124, 32, 50, 48, 58>>, <<124, 32, 50, 49, 58>>,
       <<124, 32, 50, 50, 58>>, <<124, 32, 50, 51, 58>> >>

\* a loop that also takes a bare hour "12:" for a pattern
hasTimeOrDebugPattern(data) ==
    \/ \E k \in 1..Len(debugPatterns) : Contains(data, debugPatterns[k])
    \/ Contains(data, <<49, 50, 58>>)

\* the loop over debugPatterns
hasDebugPattern(data) ==
    \E k \in 1..Len(debugPatterns) : Contains(data, debugPatterns[k])

\* the byte test of isTextData's counting loop
IsTextByte(b) == IsPrint(b) \/ b = LF \/ b = CR \/ b = TAB \/ b = SP

\* the bytes of data counted as printable
printableCount(data) == Cardinality({i \in 1..Len(data) : IsTextByte(data[i])})

\* float64(printableCount)/float64(len(data)) > 0.5
RatioAboveHalf(count, n) == 2 * count > n

\* the permissive classifier: the printable ratio alone decides
isTextDataRatioOnly(data) ==
    IF Len(data) = 0 THEN FALSE
    ELSE RatioAboveHalf(printableCount(data), Len(data))

isTextData(data) ==
    IF Len(data) = 0 THEN FALSE
    ELSE IF ~hasDebugPattern(data) THEN FALSE
    ELSE RatioAboveHalf(printableCount(data), Len(data))

isLikelyFalsePacketHeader(data) ==
    IF Len(data) < 8 THEN FALSE
    ELSE isTextData(SubSeq(data, 5, Len(data)))

(* The cleaning pipeline works on tagged text: a sequence of records           *)
(* [c |-> code, p |-> index], c the byte (later the rune) and p the index in   *)
(* the input of the byte it comes from.  The tags take no part in any          *)
(* decision; they record which input bytes a returned line is made of.         *)

Tag(data, pos) == [i \in 1..Len(data) |-> [c |-> data[i], p |-> pos[i]]]
Untag(t) == [i \in 1..Len(t) |-> t[i].c]
Ident(n) == [i \in 1..n |-> i]

IsDigitOrSemi(c) == (c >= 48 /\ c <= 57) \/ c = 59
IsAsciiLetter(c) == (c >= 65 /\ c <= 90) \/ (c >= 97 /\ c <= 122)

\* the first index >= j of t that holds no digit and no semicolon
RECURSIVE SkipParams(_, _)
SkipParams(t, j) ==
    IF j <= Len(t) /\ IsDigitOrSemi(t[j].c) THEN SkipParams(t, j + 1) ELSE j

\* regexp \x1b\[[0-9;]*[a-zA-Z] replaced by "", leftmost first, from index i
RECURSIVE StripCSI(_, _)
StripCSI(t, i) ==
    IF i > Len(t) THEN <<>>
    ELSE IF t[i].c = ESC /\ i + 1 <= Len(t) /\ t[i + 1].c = 91
    THEN LET j == SkipParams(t, i + 2)
         IN  IF j <= Len(t) /\ IsAsciiLetter(t[j].c)
             THEN StripCSI(t, j + 1)
             ELSE <<t[i]>> \o StripCSI(t, i + 1)
    ELSE <<t[i]>> \o StripCSI(t, i + 1)

\* strings.ReplaceAll(text, "\x1b", "")
DropESC(t) == SelectSeq(t, LAMBDA e : e.c # ESC)

cleanANSITagged(t) == DropESC(StripCSI(t, 1))

cleanANSIKeepESC(text) == Untag(StripCSI(Tag(text, Ident(Len(text))), 1))

cleanANSIEscapeSequences(text) == Untag(cleanANSITagged(Tag(text, Ident(Len(text)))))

\* ReplaceAll "\r\n" -> "\n", then ReplaceAll "\r" -> "\n"
RECURSIVE NormalizeNewlines(_, _)
NormalizeNewlines(t, i) ==
    IF i > Len(t) THEN <<>>
    ELSE IF t[i].c = CR /\ i + 1 <= Len(t) /\ t[i + 1].c = LF
    THEN NormalizeNewlines(t, i + 1)
    ELSE IF t[i].c = CR
    THEN <<[c |-> LF, p |-> t[i].p]>> \o NormalizeNewlines(t, i + 1)
    ELSE <<t[i]>> \o NormalizeNewlines(t, i + 1)

\* the range loop of cleanControlCharacters: decodes the runes of the text and
\* keeps the printable ones, newline, tab and space
RECURSIVE cleanControlTagged(_, _)
cleanControlTagged(t, i) ==
    IF i > Len(t) THEN <<>>
    ELSE LET d == DecodeRune(Untag(t), i)
         IN  IF IsPrint(d.r) \/ d.r = LF \/ d.r = TAB \/ d.r = SP
             THEN <<[c |-> d.r, p |-> t[i].p]>> \o cleanControlTagged(t, i + d.w)
             ELSE cleanControlTagged(t, i + d.w)

cleanControlCharacters(text) == Untag(cleanControlTagged(Tag(text, Ident(Len(text))), 1))

\* strings.Split(text, "\n") on a tagged rune sequence
RECURSIVE SplitLF(_, _)
SplitLF(t, acc) ==
    IF t = <<>> THEN <<acc>>
    ELSE IF Head(t).c = LF THEN <<acc>> \o SplitLF(Tail(t), <<>>)
    ELSE SplitLF(Tail(t), Append(acc, Head(t)))

\* strings.TrimSpace
RECURSIVE TrimLeft(_)
TrimLeft(t) == IF t # <<>> /\ IsSpace(Head(t).c) THEN TrimLeft(Tail(t)) ELSE t
RECURSIVE TrimRight(_)
TrimRight(t) ==
    IF t # <<>> /\ IsSpace(Last(t).c) THEN TrimRight(SubSeq(t, 1, Len(t) - 1)) ELSE t
TrimSpace(t) == TrimRight(TrimLeft(t))

\* len(line): the byte length of a string given as runes
ByteLen(runes) ==
    LET n(w) == Cardinality({i \in 1..Len(runes) : RuneLen(runes[i]) = w})
    IN  n(1) + 2 * n(2) + 3 * n(3) + 4 * n(4)

IsLineRune(r) == IsPrint(r) \/ r = SP \/ r = TAB

\* the runes of line counted as printable
printableChars(line) == Cardinality({i \in 1..Len(line) : IsLineRune(line[i])})

\* float64(printableCount)/float64(len(line)) >= 0.8
RatioAtLeast80(count, n) == 5 * count >= 4 * n

\* isPrintableText on a string given as its runes
isPrintableText(line) ==
    IF ByteLen(line) = 0 THEN FALSE
    ELSE RatioAtLeast80(printableChars(line), ByteLen(line))

\* "for _, r := range line": the runes of the string s from index i on
RECURSIVE StringRunes(_, _)
StringRunes(s, i) ==
    IF i > Len(s) THEN <<>>
    ELSE <<DecodeRune(s, i).r>> \o StringRunes(s, i + DecodeRune(s, i).w)

\* extractTextFromBytes on tagged input: the valid lines, each with the index
\* of the first and of the last input byte it is made of
ExtractTagged(t) ==
    IF t = <<>> THEN <<>>
    ELSE LET cleaned == cleanControlTagged(NormalizeNewlines(cleanANSITagged(t), 1), 1)
             lines   == SplitLF(cleaned, <<>>)
             trimmed == [k \in 1..Len(lines) |-> TrimSpace(lines[k])]
             valid   == SelectSeq(trimmed,
                            LAMBDA l : Len(l) > 0 /\ isPrintableText(Untag(l)))
         IN  [k \in 1..Len(valid) |->
                 [text |-> Untag(valid[k]), first |-> valid[k][1].p,
                  last |-> Last(valid[k]).p]]

\* extractTextFromBytes(data): the valid lines, each a string given as its runes
extractTextFromBytes(data) ==
    LET ls == ExtractTagged(Tag(data, Ident(Len(data))))
    IN  [k \in 1..Len(ls) |-> ls[k].text]

----------------------------------------------------------------------------
(* validatePacketStructure *)

\* int((packet[2] << 8) + packet[3]): the shift and the sum are uint8 arithmetic
expectedLength(packet) == (((packet[3] * 256) % 256) + packet[4]) % 256

\* the error validatePacketStructure returns, "nil" for none
validatePacketStructure(packet) ==
    IF Len(packet) < headerLen THEN "too short"
    ELSE IF packet[1] # start1 \/ packet[2] # start2 THEN "bad magic"
    ELSE IF Len(packet) - headerLen # expectedLength(packet) THEN "length mismatch"
    ELSE IF expectedLength(packet) > maxToFromRadioSzie THEN "too large"
    ELSE "nil"

----------------------------------------------------------------------------
(* The message codec: FormatReplyMessage, FormatReactionMessage, ParseMessage *)
(* and the accessors.  A string is the sequence of its code points; len() is *)
(* ByteLen, the length of its UTF-8 encoding.                                *)

\* the glyph literals, code point by code point as they stand in the source
replyGlyph  == <<287, 376, 8221, 8212>>
thumbsGlyph == <<287, 376, 8216>>
heartGlyph  == <<226, 164, 239, 184>>
laughGlyph  == <<287, 376, 732, 8218>>
cryGlyph    == <<287, 376, 732, 162>>
fireGlyph   == <<287, 376, 8221, 165>>
legacyGlyph == <<226, 8224, 169, 239, 184>>

enhancedGlyphs ==
    {replyGlyph, thumbsGlyph, heartGlyph, laughGlyph, cryGlyph, fireGlyph}

maxEnhancedLen == 240

REPLY == <<114, 101, 112, 108, 121>>                    \* "reply"
REACTION == <<114, 101, 97, 99, 116, 105, 111, 110>>    \* "reaction"

\* MessageMetadata; a *MessageMetadata is NoMetadata (nil) or Pointer(m)
MessageMetadata(r, t, e, rt) ==
    [ReplyTo |-> r, Type |-> t, Reaction |-> e, ReplyText |-> rt]
ZeroMetadata == MessageMetadata(<<>>, <<>>, <<>>, <<>>)
NoMetadata == <<>>
Pointer(m) == <<m>>

HasPrefix(str, prefix) ==
    Len(str) >= Len(prefix) /\ SubSeq(str, 1, Len(prefix)) = prefix

\* strings.Index(str, c) + 1 for a one-character c: 0 when c is absent
IndexRune(str, c) ==
    IF \E i \in 1..Len(str) : str[i] = c
    THEN CHOOSE i \in 1..Len(str) : str[i] = c /\ \A j \in 1..(i - 1) : str[j] # c
    ELSE 0

\* strings.TrimSpace on a string
RECURSIVE TrimLeftStr(_)
TrimLeftStr(str) ==
    IF str # <<>> /\ IsSpace(Head(str)) THEN TrimLeftStr(Tail(str)) ELSE str
RECURSIVE TrimRightStr(_)
TrimRightStr(str) ==
    IF str # <<>> /\ IsSpace(Last(str))
    THEN TrimRightStr(SubSeq(str, 1, Len(str) - 1)) ELSE str
TrimSpaceStr(str) == TrimRightStr(TrimLeftStr(str))

(* json.Marshal of a MessageMetadata: string escaping with HTML escaping on, *)
(* fields in declaration order, empty fields omitted                        *)

HexDigit(n) == IF n < 10 THEN 48 + n ELSE 87 + n

EscapeU(r) ==
    <<92, 117, HexDigit(r \div 4096), HexDigit((r \div 256) % 16),
      HexDigit((r \div 16) % 16), HexDigit(r % 16)>>

\* backspace and form feed, whose escapes depend on the library version, are
\* not among the characters the model uses
EscapeRune(r) ==
    IF r = 34 THEN <<92, 34>>
    ELSE IF r = 92 THEN <<92, 92>>
    ELSE IF r = LF THEN <<92, 110>>
    ELSE IF r = CR THEN <<92, 114>>
    ELSE IF r = TAB THEN <<92, 116>>
    ELSE IF r < 32 \/ r \in {60, 62, 38, 8232, 8233} THEN EscapeU(r)
    ELSE <<r>>

RECURSIVE EscapeAll(_)
EscapeAll(str) ==
    IF str = <<>> THEN <<>>
    ELSE IF Len(str) = 1 THEN EscapeRune(str[1])
    ELSE LET h == Len(str) \div 2
         IN  EscapeAll(SubSeq(str, 1, h)) \o EscapeAll(SubSeq(str, h + 1, Len(str)))

jsonString(str) == <<34>> \o EscapeAll(str) \o <<34>>

jsonMember(key, value) ==
    IF value = <<>> THEN <<>> ELSE <<jsonString(key) \o <<58>> \o jsonString(value)>>

RECURSIVE JoinComma(_)
JoinComma(parts) ==
    IF parts = <<>> THEN <<>>
    ELSE IF Len(parts) = 1 THEN parts[1]
    ELSE parts[1] \o <<44>> \o JoinComma(Tail(parts))

jsonMarshal(m) ==
    <<123>>
    \o JoinComma(jsonMember(<<114>>, m.ReplyTo) \o jsonMember(<<116>>, m.Type)
                 \o jsonMember(<<101>>, m.Reaction)
                 \o jsonMember(<<114, 116>>, m.ReplyText))
    \o <<125>>

(* json.Unmarshal into a MessageMetadata.  ParseMessage hands it a string    *)
(* that ends with its only "}", so the value is an object without nested     *)
(* objects or it is an error; member values are strings in every string the  *)
(* model builds.                                                             *)

IsJsonSpace(c) == c \in {SP, TAB, LF, CR}

RECURSIVE SkipWS(_, _)
SkipWS(str, i) ==
    IF i <= Len(str) /\ IsJsonSpace(str[i]) THEN SkipWS(str, i + 1) ELSE i

HexVal(c) ==
    IF c \in 48..57 THEN c - 48
    ELSE IF c \in 97..102 THEN c - 87
    ELSE IF c \in 65..70 THEN c - 55
    ELSE -1

ScanFail == [ok |-> FALSE, val |-> <<>>, next |-> 0]

\* the string literal whose opening quote precedes index i
RECURSIVE ScanString(_, _, _)
ScanString(str, i, acc) ==
    LET stops == { k \in i..Len(str) : str[k] = 34 \/ str[k] = 92 \/ str[k] < 32 }
    IN  IF stops = {} THEN ScanFail
        ELSE LET j == CHOOSE k \in stops : \A l \in stops : k <= l
                 got == acc \o SubSeq(str, i, j - 1)
             IN  IF str[j] = 34 THEN [ok |-> TRUE, val |-> got, next |-> j + 1]
                 ELSE IF str[j] < 32 THEN ScanFail
                 ELSE IF j + 1 > Len(str) THEN ScanFail
                 ELSE LET c == str[j + 1]
                      IN  IF c \in {34, 92, 47} THEN ScanString(str, j + 2, Append(got, c))
                          ELSE IF c = 98 THEN ScanString(str, j + 2, Append(got, 8))
                          ELSE IF c = 102 THEN ScanString(str, j + 2, Append(got, 12))
                          ELSE IF c = 110 THEN ScanString(str, j + 2, Append(got, LF))
                          ELSE IF c = 114 THEN ScanString(str, j + 2, Append(got, CR))
                          ELSE IF c = 116 THEN ScanString(str, j + 2, Append(got, TAB))
                          ELSE IF c = 117 /\ j + 5 <= Len(str)
                                  /\ \A k \in 2..5 : HexVal(str[j + k]) >= 0
                          THEN ScanString(str, j + 6,
                                   Append(got, HexVal(str[j + 2]) * 4096 + HexVal(str[j + 3]) * 256
                                               + HexVal(str[j + 4]) * 16 + HexVal(str[j + 5])))
                          ELSE ScanFail

\* upper-case ASCII letters folded: field names match keys without regard to case
FoldKey(key) ==
    [i \in 1..Len(key) |-> IF key[i] \in 65..90 THEN key[i] + 32 ELSE key[i]]

SetField(m, key, value) ==
    IF FoldKey(key) = <<114>> THEN [m EXCEPT !.ReplyTo = value]
    ELSE IF FoldKey(key) = <<116>> THEN [m EXCEPT !.Type = value]
    ELSE IF FoldKey(key) = <<101>> THEN [m EXCEPT !.Reaction = value]
    ELSE IF FoldKey(key) = <<114, 116>> THEN [m EXCEPT !.ReplyText = value]
    ELSE m

UnmarshalFail == [ok |-> FALSE, meta |-> ZeroMetadata]

\* the members of an object from the key at index i on
RECURSIVE ParseMembers(_, _, _)
ParseMembers(str, i, m) ==
    IF i > Len(str) \/ str[i] # 34 THEN UnmarshalFail
    ELSE LET k == ScanString(str, i + 1, <<>>)
         IN  IF ~k.ok THEN UnmarshalFail
             ELSE LET colon == SkipWS(str, k.next)
                  IN  IF colon > Len(str) \/ str[colon] # 58 THEN UnmarshalFail
                      ELSE LET q == SkipWS(str, colon + 1)
                           IN  IF q > Len(str) \/ str[q] # 34 THEN UnmarshalFail
                               ELSE LET v == ScanString(str, q + 1, <<>>)
                                    IN  IF ~v.ok THEN UnmarshalFail
                                        ELSE LET n == SkipWS(str, v.next)
                                                 m2 == SetField(m, k.val, v.val)
                                             IN  IF n > Len(str) THEN UnmarshalFail
                                                 ELSE IF str[n] = 44
                                                 THEN ParseMembers(str, SkipWS(str, n + 1), m2)
                                                 ELSE IF str[n] = 125 /\ SkipWS(str, n + 1) > Len(str)
                                                 THEN [ok |-> TRUE, meta |-> m2]
                                                 ELSE UnmarshalFail

\* a decoder that skips whatever precedes the first "{"
jsonUnmarshalSkipJunk(str) ==
    LET i == IndexRune(str, 123)
        j == SkipWS(str, i + 1)
    IN  IF i = 0 THEN UnmarshalFail
        ELSE IF j <= Len(str) /\ str[j] = 125
        THEN IF SkipWS(str, j + 1) > Len(str)
             THEN [ok |-> TRUE, meta |-> ZeroMetadata]
             ELSE UnmarshalFail
        ELSE ParseMembers(str, j, ZeroMetadata)

jsonUnmarshal(str) ==
    LET i == SkipWS(str, 1)
    IN  IF i > Len(str) \/ str[i] # 123 THEN UnmarshalFail
        ELSE LET j == SkipWS(str, i + 1)
             IN  IF j <= Len(str) /\ str[j] = 125
                 THEN IF SkipWS(str, j + 1) > Len(str)
                      THEN [ok |-> TRUE, meta |-> ZeroMetadata]
                      ELSE UnmarshalFail
                 ELSE ParseMembers(str, j, ZeroMetadata)

(* The encoders *)

\* fmt.Sprintf("<legacy glyph> @%s: %s\n\n%s", replyToAuthor, replyToText, replyText)
legacyReply(replyToText, replyToAuthor, replyText) ==
    legacyGlyph \o <<SP, 64>> \o replyToAuthor \o <<58, SP>> \o replyToText
        \o <<LF, LF>> \o replyText

enhancedReply(replyToID, replyToText, replyText) ==
    replyGlyph \o jsonMarshal(MessageMetadata(replyToID, REPLY, <<>>, replyToText))
        \o replyText

\* the encoder with the size test off by one: < in place of <=
FormatReplyBelowLimit(replyToID, replyToText, replyToAuthor, replyText) ==
    IF ByteLen(enhancedReply(replyToID, replyToText, replyText)) < maxEnhancedLen
    THEN enhancedReply(replyToID, replyToText, replyText)
    ELSE legacyReply(replyToText, replyToAuthor, replyText)

FormatReplyMessage(replyToID, replyToText, replyToAuthor, replyText) ==
    IF ByteLen(enhancedReply(replyToID, replyToText, replyText)) <= maxEnhancedLen
    THEN enhancedReply(replyToID, replyToText, replyText)
    ELSE legacyReply(replyToText, replyToAuthor, replyText)

enhancedReaction(messageID, emoji) ==
    emoji \o jsonMarshal(MessageMetadata(messageID, REACTION, emoji, <<>>))

simpleReaction(messageID, emoji) == emoji \o <<58, 58>> \o messageID

FormatReactionMessage(messageID, emoji) ==
    IF ByteLen(enhancedReaction(messageID, emoji)) <= maxEnhancedLen
    THEN enhancedReaction(messageID, emoji)
    ELSE simpleReaction(messageID, emoji)

(* The decoder *)

ParsedMessage(text, metadata, format) ==
    [Text |-> text, Metadata |-> metadata, Format |-> format]

\* the enhanced branch with the whole matched glyph removed from the text
parseEnhancedWholeGlyph(text) ==
    LET untouched == [done |-> FALSE, res |-> ParsedMessage(text, NoMetadata, "plain")]
    IN  IF ~\E g \in enhancedGlyphs : HasPrefix(text, g) THEN untouched
        ELSE LET g == CHOOSE g \in enhancedGlyphs : HasPrefix(text, g)
                 rest == SubSeq(text, Len(g) + 1, Len(text))
                 jsonEnd == IndexRune(rest, 125)
             IN  IF jsonEnd <= 1 THEN untouched
                 ELSE LET u == jsonUnmarshal(SubSeq(rest, 1, jsonEnd))
                          after == TrimSpaceStr(SubSeq(rest, jsonEnd + 1, Len(rest)))
                      IN  IF ~u.ok THEN untouched
                          ELSE IF u.meta.Type = REPLY \/ u.meta.Type = REACTION
                          THEN [done |-> TRUE, res |-> ParsedMessage(after, Pointer(u.meta), "enhanced")]
                          ELSE [done |-> FALSE, res |-> ParsedMessage(after, Pointer(u.meta), "plain")]

\* the enhanced branch: the result it returns (done) or leaves for the
\* branches after it
parseEnhanced(text) ==
    LET untouched == [done |-> FALSE, res |-> ParsedMessage(text, NoMetadata, "plain")]
    IN  IF ~\E g \in enhancedGlyphs : HasPrefix(text, g) THEN untouched
        ELSE LET rest == Tail(text)
                 jsonEnd == IndexRune(rest, 125)
             IN  IF jsonEnd <= 1 THEN untouched
                 ELSE LET u == jsonUnmarshal(SubSeq(rest, 1, jsonEnd))
                          after == TrimSpaceStr(SubSeq(rest, jsonEnd + 1, Len(rest)))
                      IN  IF ~u.ok THEN untouched
                          ELSE IF u.meta.Type = REPLY \/ u.meta.Type = REACTION
                          THEN [done |-> TRUE, res |-> ParsedMessage(after, Pointer(u.meta), "enhanced")]
                          ELSE [done |-> FALSE, res |-> ParsedMessage(after, Pointer(u.meta), "plain")]

NoLF(str) == \A i \in 1..Len(str) : str[i] # LF

\* regexp ^(.)\:\:(.+)$
matchSimple(text) ==
    /\ Len(text) >= 4
    /\ text[1] # LF /\ text[2] = 58 /\ text[3] = 58
    /\ NoLF(SubSeq(text, 4, Len(text)))

\* \s of the regexp syntax
IsReSpace(c) == c \in {TAB, LF, 12, CR, SP}

RECURSIVE SkipReSpace(_, _)
SkipReSpace(str, i) ==
    IF i <= Len(str) /\ IsReSpace(str[i]) THEN SkipReSpace(str, i + 1) ELSE i

\* \s+(.+?) matched against the whole of str: the text group, when there is one
tailGroup(str) ==
    LET m == SkipReSpace(str, 1) - 1
    IN  IF m < 1 THEN [ok |-> FALSE, text |-> <<>>]
        ELSE IF m < Len(str)
        THEN [ok |-> NoLF(SubSeq(str, m + 1, Len(str))),
              text |-> SubSeq(str, m + 1, Len(str))]
        ELSE [ok |-> m >= 2 /\ str[m] # LF, text |-> <<str[m]>>]

\* regexp ^<legacy glyph>\s+@(.+?):\s+(.+?)\n\n(.+)$ : groups 2 and 3 of the
\* match the engine prefers (the shortest author first), when there is a match
matchIOS(text) ==
    LET none == [ok |-> FALSE, replyText |-> <<>>, body |-> <<>>]
        n == Len(text)
        g == Len(legacyGlyph)
        \* the body: the longest suffix without a newline
        bs == IF NoLF(text) THEN 1
              ELSE 1 + CHOOSE i \in 1..n :
                        text[i] = LF /\ \A j \in (i + 1)..n : text[j] # LF
    IN  IF ~HasPrefix(text, legacyGlyph) \/ bs > n \/ bs - 2 <= g
           \/ text[bs - 1] # LF \/ text[bs - 2] # LF
        THEN none
        ELSE LET x == SubSeq(text, g + 1, bs - 3)
                 at == SkipReSpace(x, 1)
                 colons == {c \in (at + 2)..Len(x) :
                               /\ x[c] = 58
                               /\ NoLF(SubSeq(x, at + 1, c - 1))
                               /\ tailGroup(SubSeq(x, c + 1, Len(x))).ok}
             IN  IF at < 2 \/ at > Len(x) \/ x[at] # 64 \/ colons = {} THEN none
                 ELSE LET c == CHOOSE k \in colons : \A k2 \in colons : k <= k2
                      IN  [ok |-> TRUE,
                           replyText |-> tailGroup(SubSeq(x, c + 1, Len(x))).text,
                           body |-> SubSeq(text, bs, n)]

ParseMessage(text) ==
    LET e == parseEnhanced(text)
        ios == matchIOS(text)
    IN  IF e.done THEN e.res
        ELSE IF matchSimple(text)
        THEN ParsedMessage(<<>>,
                 Pointer(MessageMetadata(SubSeq(text, 4, Len(text)), REACTION,
                                         <<text[1]>>, <<>>)),
                 "simple")
        ELSE IF ios.ok
        THEN ParsedMessage(ios.body,
                           Pointer(MessageMetadata(<<>>, REPLY, <<>>, ios.replyText)), "ios")
        ELSE [e.res EXCEPT !.Format = "plain"]

ExtractReplyMetadata(parsed) ==
    IF parsed.Metadata # NoMetadata /\ parsed.Metadata[1].Type = REPLY
    THEN [replyToID |-> parsed.Metadata[1].ReplyTo,
          replyToText |-> parsed.Metadata[1].ReplyText, ok |-> TRUE]
    ELSE [replyToID |-> <<>>, replyToText |-> <<>>, ok |-> FALSE]

ExtractReactionMetadata(parsed) ==
    IF parsed.Metadata # NoMetadata /\ parsed.Metadata[1].Type = REACTION
    THEN [messageID |-> parsed.Metadata[1].ReplyTo,
          emoji |-> parsed.Metadata[1].Reaction, ok |-> TRUE]
    ELSE [messageID |-> <<>>, emoji |-> <<>>, ok |-> FALSE]

GetDisplayText(parsed) == IF parsed.Format = "simple" THEN <<>> ELSE parsed.Text

IsReply(parsed) == parsed.Metadata # NoMetadata /\ parsed.Metadata[1].Type = REPLY

IsReaction(parsed) == parsed.Metadata # NoMetadata /\ parsed.Metadata[1].Type = REACTION

\* the arguments of one call of the codec
CodecInput(op, id, text, author, body, emoji) ==
    [op |-> op, id |-> id, text |-> text, author |-> author, body |-> body,
     emoji |-> emoji]

----------------------------------------------------------------------------
(* Bounds of the model *)

MaxSegs == 3          \* chunks the device sends in one behaviour
MaxBatch == 2         \* largest maxResponses passed to ReadResponseBatch
MaxSessions == 2      \* calls made in one behaviour
MaxParts == 4         \* parts a slice given to validatePacketStructure is made of
MaxTokens == 4        \* tokens of a classifier input
MaxFrames == 2        \* frames one ReadResponse call of GetRadioInfo returns

----------------------------------------------------------------------------
(* The transport and the structured-payload codec (external collaborators) *)

\* the index of the last byte of the varint that starts at index i of p, or 0
\* when the varint is cut off or longer than 10 bytes
RECURSIVE VarintEnd(_, _, _)
VarintEnd(p, i, n) ==
    IF i > Len(p) \/ n > 10 THEN 0
    ELSE IF p[i] < 128 THEN i
    ELSE VarintEnd(p, i + 1, n + 1)

\* the value of the varint held in p[i..e]
RECURSIVE VarintValue(_, _, _)
VarintValue(p, i, e) ==
    IF i = e THEN p[i] ELSE (p[i] - 128) + 128 * VarintValue(p, i + 1, e)

\* the protobuf wire format: the fields of p from index i on, inside the group
\* of field number g (0: not inside a group).  The index after the last byte
\* consumed, or 0 when the bytes are no well-formed sequence of fields.
RECURSIVE ParseFields(_, _, _)
ParseFields(p, i, g) ==
    IF i > Len(p) THEN (IF g = 0 THEN i ELSE 0)
    ELSE LET e == VarintEnd(p, i, 1)
             tag == VarintValue(p, i, e)
             num == tag \div 8
             wt == tag % 8
         IN  IF e = 0 THEN 0
             ELSE IF num = 0 THEN 0
             ELSE IF wt = 0
             THEN LET v == VarintEnd(p, e + 1, 1)
                  IN  IF v = 0 THEN 0 ELSE ParseFields(p, v + 1, g)
             ELSE IF wt = 1
             THEN IF e + 8 > Len(p) THEN 0 ELSE ParseFields(p, e + 9, g)
             ELSE IF wt = 2
             THEN LET l == VarintEnd(p, e + 1, 1)
                      n == VarintValue(p, e + 1, l)
                  IN  IF l = 0 THEN 0
                      ELSE IF l + n > Len(p) THEN 0
                      ELSE ParseFields(p, l + n + 1, g)
             ELSE IF wt = 3
             THEN LET r == ParseFields(p, e + 1, num)
                  IN  IF r = 0 THEN 0 ELSE ParseFields(p, r, g)
             ELSE IF wt = 4
             THEN IF g = num THEN e + 1 ELSE 0
             ELSE IF wt = 5
             THEN IF e + 4 > Len(p) THEN 0 ELSE ParseFields(p, e + 5, g)
             ELSE 0

\* proto.Unmarshal(payloadBytes, &fromRadio): the codec is an external
\* collaborator; it is modelled as the wire-format parse of the payload (the
\* empty payload decodes), and the message it yields stands for the payload
Unmarshal(payload) ==
    [ok |-> ParseFields(payload, 1, 0) = Len(payload) + 1, msg |-> payload]

\* sendPacket: the header written for a payload, and the packet written
Header(payload) ==
    <<start1, start2, (Len(payload) \div 256) % 256, Len(payload) % 256>>
sendPacket(payload) == Header(payload) \o payload

Run(b, n) == [i \in 1..n |-> b]

\* what the device may put on the line in one chunk
Segments ==
    { sendPacket(<<8, 1>>),              \* a frame, payload {id: 1}
      sendPacket(<<8, 2>>),              \* a frame, payload {id: 2}
      <<start1, 65>>,                    \* START1 followed by "A"
      <<start1, 65, 0, 2, 8, 1>>,        \* a frame but for its second byte, "A"
      sendPacket(<<255>>),               \* a frame whose payload does not decode
      sendPacket(<<>>),                  \* a frame with an empty payload
      <<start1, start2, 2, 1>>,          \* a header claiming length 513
      <<start1>>,                        \* a lone START1
      <<ESC, 91, 109, 72, LF>>,          \* console text "\x1b[mH\n"
      <<65, LF>>,                        \* "A\n", no diagnostic marker
      sendPacket(<<162, 1, 4, 73, 78, 70, 79>>),
                                         \* a frame whose payload (an unknown
                                         \* field holding "INFO") decodes and
                                         \* satisfies isTextData
      Run(65, RepeatLimit + 2),          \* 22 times "A"
      Run(0, RepeatLimit + 1) }          \* 21 times 0x00

Functions == {"ReadResponseWithTypes", "ReadResponse", "ReadResponseBatch"}

\* what a failed read may have written into the read buffer
Scratch == {255}

\* r.streamer.Read(b) with len(b) = 1: the next byte of the line; or, when the
\* line is empty, end-of-stream or the expiry of the read deadline; or, at any
\* time, another read error.  A failed read leaves in b whatever the reader put
\* there: the byte of the last successful read, or scratch.
ReadOutcomes ==
    (IF pending # <<>>
     THEN {[kind |-> "byte", b |-> Head(pending)]}
     ELSE [kind : {"eof", "deadline"}, b : {previousByte} \cup Scratch])
        \cup [kind : {"ioerr"}, b : {previousByte} \cup Scratch]

----------------------------------------------------------------------------
(* The head of the three read loops *)

\* int((processedBytes[2] << 8) + processedBytes[3]): both operands are bytes,
\* so the shift and the sum are computed in 8 bits
PacketLength(buf) == (((buf[3] * 256) % 256) + buf[4]) % 256

\* bytes.Equal(b, previousByte) and the counter update
NextRepeat(b) == IF b = previousByte THEN repeatByteCounter + 1 ELSE 0

\* the exit test: "eof", "repeat" or "deadline" when the loop breaks, "ioerr"
\* when the call returns the error, "none" when the byte is processed
LoopExit(o) ==
    IF o.kind = "eof" THEN "eof"
    ELSE IF NextRepeat(o.b) > RepeatLimit THEN "repeat"
    ELSE IF o.kind = "deadline" THEN "deadline"
    ELSE IF o.kind = "ioerr" THEN "ioerr"
    ELSE "none"

----------------------------------------------------------------------------
(* The loop bodies.  A loop's locals are handled as one record:                *)
(*   pb, pp    processedBytes and the indices of its bytes                     *)
(*   tb, tp    textBuffer and the indices of its bytes                         *)
(*   pkts      ProtobufPackets / FromRadioPackets                              *)
(*   texts     TextMessages            all   AllResponses                      *)
(*   raw       frameRaw                seen  textSeen                          *)
(*   count     responseCount                                                   *)

Range(f) == {f[i] : i \in DOMAIN f}

Locals ==
    [pb |-> processedBytes, pp |-> procPos, tb |-> textBuffer, tp |-> textPos,
     pkts |-> ProtobufPackets, texts |-> TextMessages, all |-> AllResponses,
     raw |-> frameRaw, seen |-> textSeen, count |-> responseCount]

\* locals that keep what the call before left in them
KeptLocals ==
    [pb |-> processedBytes, pp |-> procPos, tb |-> textBuffer, tp |-> textPos,
     pkts |-> <<>>, texts |-> <<>>, all |-> <<>>, raw |-> <<>>, seen |-> {},
     count |-> 0]

EmptyLocals ==
    [pb |-> <<>>, pp |-> <<>>, tb |-> <<>>, tp |-> <<>>, pkts |-> <<>>,
     texts |-> <<>>, all |-> <<>>, raw |-> <<>>, seen |-> {}, count |-> 0]

SetLocals(st) ==
    /\ processedBytes' = st.pb
    /\ procPos' = st.pp
    /\ textBuffer' = st.tb
    /\ textPos' = st.tp
    /\ ProtobufPackets' = st.pkts
    /\ TextMessages' = st.texts
    /\ AllResponses' = st.all
    /\ frameRaw' = st.raw
    /\ textSeen' = st.seen
    /\ responseCount' = st.count

\* processedBytes = append(processedBytes, b...)
Push(st, b, i) == [st EXCEPT !.pb = Append(@, b), !.pp = Append(@, i)]

\* a reset that leaves the buffer as it is
KeepBuffer(st) == st

\* processedBytes = emptyByte
Reset(st) == [st EXCEPT !.pb = <<>>, !.pp = <<>>]

\* textBuffer = append(textBuffer, bytes...)
AppendText(st, bytes, poss) ==
    [st EXCEPT !.tb = @ \o bytes, !.tp = @ \o poss, !.seen = @ \cup Range(poss)]

\* a text entry of AllResponses
TextResponse(l) ==
    [Type |-> "text", ProtobufMsg |-> <<>>, TextData |-> l.text,
     RawBytes |-> l.text, first |-> l.first, last |-> l.last]

\* a protobuf entry of AllResponses
ProtobufResponse(msg, bytes, poss) ==
    [Type |-> "protobuf", ProtobufMsg |-> msg, TextData |-> <<>>,
     RawBytes |-> bytes, first |-> poss[1], last |-> Last(poss)]

\* lines appended to TextMessages only
EmitLinesUnlisted(st) ==
    LET ls == ExtractTagged(Tag(st.tb, st.tp))
    IN  [st EXCEPT !.texts = @ \o [k \in 1..Len(ls) |-> ls[k].text]]

\* the loop "for _, line := range textLines" over extractTextFromBytes(textBuffer)
EmitLines(st) ==
    LET ls == ExtractTagged(Tag(st.tb, st.tp))
    IN  [st EXCEPT !.texts = @ \o [k \in 1..Len(ls) |-> ls[k].text],
                   !.all = @ \o [k \in 1..Len(ls) |-> TextResponse(ls[k])]]

\* "Process any accumulated text data before starting protobuf parsing"
FlushBeforeFrame(st) ==
    IF Len(st.tb) > 0 /\ isTextData(st.tb)
    THEN [EmitLines(st) EXCEPT !.tb = <<>>, !.tp = <<>>]
    ELSE st

\* FinalFlush without the isTextData test
FinalFlushUnchecked(st) ==
    IF Len(st.tb) > 0 THEN EmitLines(st) ELSE st

\* "Process any remaining text data", after the loop
FinalFlush(st) ==
    IF Len(st.tb) > 0 /\ isTextData(st.tb) THEN EmitLines(st) ELSE st

\* the append of a decoded frame to the results
EmitFrame(st, msg, withTypes) ==
    [st EXCEPT !.pkts = Append(@, msg),
               !.all = IF withTypes
                       THEN Append(@, ProtobufResponse(msg, st.pb, st.pp))
                       ELSE @,
               !.raw = Append(@, [bytes |-> st.pb, first |-> st.pp[1],
                                  last |-> Last(st.pp)])]

\* WTComplete dropping the bytes of a frame that does not decode
WTCompleteDropping(st, packetLength) ==
    LET payloadBytes == SubSeq(st.pb, headerLen + 1, Len(st.pb))
        dec == Unmarshal(payloadBytes)
    IN  IF Len(payloadBytes) = 0 THEN Reset(st)
        ELSE IF Len(payloadBytes) # packetLength THEN Reset(st)
        ELSE IF ~dec.ok THEN Reset(st)
        ELSE Reset(EmitFrame(st, dec.msg, TRUE))

\* ReadResponseWithTypes: "Complete protobuf packet received"
WTComplete(st, packetLength) ==
    LET payloadBytes == SubSeq(st.pb, headerLen + 1, Len(st.pb))
        dec == Unmarshal(payloadBytes)
    IN  IF Len(payloadBytes) = 0 THEN Reset(st)
        ELSE IF Len(payloadBytes) # packetLength THEN Reset(st)
        ELSE IF ~dec.ok THEN Reset(AppendText(st, st.pb, st.pp))
        ELSE Reset(EmitFrame(st, dec.msg, TRUE))

\* ReadResponseWithTypes: the branch pointer >= headerLen; st holds the new byte
WTPayload(st, pointer, b, i) ==
    LET packetLength == PacketLength(st.pb)
    IN  IF pointer = headerLen /\ packetLength > maxToFromRadioSzie
        THEN AppendText(Reset(st), <<b>>, <<i>>)
        ELSE IF pointer = headerLen /\ Len(st.pb) >= 8
                /\ isLikelyFalsePacketHeader(st.pb)
        THEN Reset(AppendText(st, st.pb, st.pp))
        ELSE IF Len(st.pb) # 0 /\ pointer + 1 = packetLength + headerLen
        THEN WTComplete(st, packetLength)
        ELSE st

\* ReadResponseWithTypes: the body of the loop for the byte b, the i-th read
WTProcess(st, b, i) ==
    LET pointer == Len(st.pb)
    IN  IF pointer = 0 /\ b = start1 THEN Push(FlushBeforeFrame(st), b, i)
        ELSE IF pointer = 1 /\ b = start2 THEN Push(st, b, i)
        ELSE IF pointer > 0 /\ pointer < headerLen THEN Push(st, b, i)
        ELSE IF pointer >= headerLen THEN WTPayload(Push(st, b, i), pointer, b, i)
        ELSE LET st1 == AppendText(st, <<b>>, <<i>>)
             IN  IF Len(st1.pb) > 0
                 THEN Reset(AppendText(st1, st1.pb, st1.pp))
                 ELSE st1

\* ReadResponse: the frame is complete
RRComplete(st, packetLength) ==
    LET payloadBytes == SubSeq(st.pb, headerLen + 1, Len(st.pb))
        dec == Unmarshal(payloadBytes)
    IN  IF Len(payloadBytes) = 0 THEN Reset(st)
        ELSE IF Len(payloadBytes) # packetLength THEN Reset(st)
        ELSE IF ~dec.ok THEN Reset(st)
        ELSE Reset(EmitFrame(st, dec.msg, FALSE))

\* ReadResponse: the branch pointer >= headerLen; st holds the new byte
RRPayload(st, pointer) ==
    LET packetLength == PacketLength(st.pb)
        st1 == IF pointer = headerLen /\ packetLength > maxToFromRadioSzie
               THEN Reset(st) ELSE st
    IN  IF Len(st1.pb) # 0 /\ pointer + 1 = packetLength + headerLen
        THEN RRComplete(st1, packetLength)
        ELSE st1

\* ReadResponse: the body of the loop for the byte b, the i-th read
RRProcess(st, b, i) ==
    LET pointer == Len(st.pb)
        st1 == Push(st, b, i)
    IN  IF pointer = 0 THEN (IF b # start1 THEN Reset(st1) ELSE st1)
        ELSE IF pointer = 1 THEN (IF b # start2 THEN Reset(st1) ELSE st1)
        ELSE IF pointer >= headerLen THEN RRPayload(st1, pointer)
        ELSE st1

\* BatchPayload without the responseCount++
BatchPayloadUncounted(st) ==
    LET packetLength == PacketLength(st.pb)
        totalExpectedLength == 4 + packetLength
        payloadBytes == SubSeq(st.pb, 5, totalExpectedLength)
        dec == Unmarshal(payloadBytes)
        whole == [st EXCEPT !.pb = SubSeq(@, 1, totalExpectedLength),
                            !.pp = SubSeq(@, 1, totalExpectedLength)]
        done == EmitFrame(whole, dec.msg, FALSE)
    IN  IF Len(st.pb) >= totalExpectedLength
        THEN IF ~dec.ok THEN Reset(st)
             ELSE IF Len(st.pb) > totalExpectedLength
             THEN [done EXCEPT
                     !.pb = SubSeq(st.pb, totalExpectedLength + 1, Len(st.pb)),
                     !.pp = SubSeq(st.pp, totalExpectedLength + 1, Len(st.pp))]
             ELSE Reset(done)
        ELSE st

\* ReadResponseBatch: the branch pointer >= 4; st holds the new byte
BatchPayload(st) ==
    LET packetLength == PacketLength(st.pb)
        totalExpectedLength == 4 + packetLength
        payloadBytes == SubSeq(st.pb, 5, totalExpectedLength)
        dec == Unmarshal(payloadBytes)
        whole == [st EXCEPT !.pb = SubSeq(@, 1, totalExpectedLength),
                            !.pp = SubSeq(@, 1, totalExpectedLength)]
        done == [EmitFrame(whole, dec.msg, FALSE) EXCEPT !.count = @ + 1]
    IN  IF Len(st.pb) >= totalExpectedLength
        THEN IF ~dec.ok THEN Reset(st)
             ELSE IF Len(st.pb) > totalExpectedLength
             THEN [done EXCEPT
                     !.pb = SubSeq(st.pb, totalExpectedLength + 1, Len(st.pb)),
                     !.pp = SubSeq(st.pp, totalExpectedLength + 1, Len(st.pp))]
             ELSE Reset(done)
        ELSE st

\* ReadResponseBatch: the body of the loop for the byte b, the i-th read
BatchProcess(st, b, i) ==
    LET pointer == Len(st.pb)
        st1 == Push(st, b, i)
    IN  IF pointer = 0 THEN (IF b # start1 THEN Reset(st1) ELSE st1)
        ELSE IF pointer = 1 THEN (IF b # start2 THEN Reset(st1) ELSE st1)
        ELSE IF pointer = 2 \/ pointer = 3 THEN st1
        ELSE BatchPayload(st1)

----------------------------------------------------------------------------
(* Actions *)

textH == <<tdata, tcount, tphase, tresult, tlines, tclean, tagain, tkept>>
packetH == <<vpacket, vcount, vphase, verr, vlen>>
codecH == <<cphase, cin, cmsg, cparsed>>
infoH == <<gpc, checks, radioResponses, err, reads, infoRet>>
harness == <<textH, packetH, codecH, infoH>>

Init ==
    /\ fn = "none"
    /\ pc = "idle"
    /\ pending = <<>>
    /\ segs = 0
    /\ delivered = <<>>
    /\ processedBytes = <<>>
    /\ procPos = <<>>
    /\ textBuffer = <<>>
    /\ textPos = <<>>
    /\ repeatByteCounter = 0
    /\ previousByte = 0
    /\ ProtobufPackets = <<>>
    /\ TextMessages = <<>>
    /\ AllResponses = <<>>
    /\ maxResponses = 0
    /\ responseCount = 0
    /\ cause = "none"
    /\ lastRead = "none"
    /\ retNil = FALSE
    /\ retErr = "nil"
    /\ logLeftover = <<>>
    /\ frameRaw = <<>>
    /\ textSeen = {}
    /\ twin = EmptyLocals
    /\ sessions = 0
    /\ resumed = FALSE
    /\ tdata = <<>>
    /\ tcount = 0
    /\ tphase = "build"
    /\ tresult = FALSE
    /\ tlines = <<>>
    /\ tclean = <<>>
    /\ tagain = <<>>
    /\ tkept = FALSE
    /\ vpacket = <<>>
    /\ vcount = 0
    /\ vphase = "build"
    /\ verr = "nil"
    /\ vlen = -1
    /\ cphase = "start"
    /\ cin = CodecInput("none", <<>>, <<>>, <<>>, <<>>, <<>>)
    /\ cmsg = <<>>
    /\ cparsed = ParsedMessage(<<>>, NoMetadata, "plain")
    /\ gpc = "start"
    /\ checks = 0
    /\ radioResponses = 0
    /\ err = "nil"
    /\ reads = <<>>
    /\ infoRet = [n |-> 0, err |-> "none"]

\* the device puts a chunk on the line
DeviceSend(seg) ==
    /\ pc = "reading"
    /\ pending = <<>>
    /\ segs < MaxSegs
    /\ pending' = seg
    /\ segs' = segs + 1
    /\ UNCHANGED <<fn, pc, delivered, processedBytes, procPos,
                   textBuffer, textPos, repeatByteCounter, previousByte,
                   ProtobufPackets, TextMessages, AllResponses, maxResponses,
                   responseCount, cause, lastRead, retNil, retErr, logLeftover,
                   frameRaw, textSeen, twin, sessions, resumed, harness>>

\* the declarations before the loop; ReadResponseBatch with maxResponses <= 0
\* never enters its loop
Declare(f, m) ==
    /\ sessions' = sessions + 1
    /\ twin' = EmptyLocals
    /\ resumed' = (pc = "done" /\ processedBytes # <<>>)
    /\ fn' = f
    /\ maxResponses' = m
    /\ SetLocals(EmptyLocals)
    /\ delivered' = <<>>
    /\ repeatByteCounter' = 0
    /\ previousByte' = 0
    /\ lastRead' = "none"
    /\ retNil' = FALSE
    /\ retErr' = "nil"
    /\ logLeftover' = <<>>
    /\ IF f = "ReadResponseBatch" /\ ~(0 < m)
       THEN pc' = "done" /\ cause' = "limit"
       ELSE pc' = "reading" /\ cause' = "none"
    /\ UNCHANGED <<pending, segs, harness>>

\* the first call of f
Call(f, m) ==
    /\ pc = "idle"
    /\ Declare(f, m)

\* a call of f after the call before it has returned; the bytes that call
\* left unread are still on the line
CallAgain(f, m) ==
    /\ pc = "done"
    /\ sessions < MaxSessions
    /\ Declare(f, m)

\* the read at the head of an iteration and its bookkeeping
TakeRead(o) ==
    /\ lastRead' = o.kind
    /\ pending' = IF o.kind = "byte" THEN Tail(pending) ELSE pending
    /\ delivered' = IF o.kind = "byte" THEN Append(delivered, o.b) ELSE delivered
    /\ repeatByteCounter' = NextRepeat(o.b)

\* a return that hands over the results gathered so far with the error
ReturnErrorWithResults ==
    /\ pc' = "done"
    /\ cause' = "error"
    /\ retNil' = FALSE
    /\ retErr' = "ioerr"
    /\ logLeftover' = <<>>
    /\ UNCHANGED <<previousByte, processedBytes, procPos, textBuffer, textPos,
                   ProtobufPackets, TextMessages, AllResponses, frameRaw,
                   textSeen, responseCount>>

\* "return nil, err"
ReturnError ==
    /\ pc' = "done"
    /\ cause' = "error"
    /\ retNil' = TRUE
    /\ retErr' = "ioerr"
    /\ logLeftover' = <<>>
    /\ UNCHANGED <<previousByte, processedBytes, procPos, textBuffer, textPos,
                   ProtobufPackets, TextMessages, AllResponses, frameRaw,
                   textSeen, responseCount>>

\* the code after the loop: the results st are returned with a nil error and
\* the bytes left in processedBytes are logged
ReturnResults(st, why) ==
    /\ pc' = "done"
    /\ cause' = why
    /\ retNil' = FALSE
    /\ retErr' = "nil"
    /\ logLeftover' = st.pb
    /\ SetLocals(st)

\* the byte is processed and the loop goes on
Continue(st, b) ==
    /\ pc' = "reading"
    /\ previousByte' = b
    /\ SetLocals(st)
    /\ UNCHANGED <<cause, retNil, retErr, logLeftover>>

\* one iteration of the loop of ReadResponseWithTypes, through the return
\* when the loop ends
ReadResponseWithTypes ==
    /\ pc = "reading"
    /\ fn = "ReadResponseWithTypes"
    /\ \E o \in ReadOutcomes :
          LET exit == LoopExit(o)
          IN  /\ TakeRead(o)
              /\ IF exit = "none"
                 THEN Continue(WTProcess(Locals, o.b, Len(delivered) + 1), o.b)
                 ELSE IF exit = "ioerr"
                 THEN ReturnError
                 ELSE /\ ReturnResults(FinalFlush(Locals), exit)
                      /\ UNCHANGED previousByte
              /\ twin' = IF exit = "none"
                         THEN RRProcess(twin, o.b, Len(delivered) + 1)
                         ELSE twin
    /\ UNCHANGED <<fn, segs, maxResponses, sessions, resumed, harness>>

\* one iteration of the loop of ReadResponse, through the return
ReadResponse ==
    /\ pc = "reading"
    /\ fn = "ReadResponse"
    /\ \E o \in ReadOutcomes :
          LET exit == LoopExit(o)
          IN  /\ TakeRead(o)
              /\ IF exit = "none"
                 THEN Continue(RRProcess(Locals, o.b, Len(delivered) + 1), o.b)
                 ELSE IF exit = "ioerr"
                 THEN ReturnError
                 ELSE /\ ReturnResults(Locals, exit)
                      /\ UNCHANGED previousByte
    /\ UNCHANGED <<fn, segs, maxResponses, twin, sessions, resumed, harness>>

\* one iteration of the loop of ReadResponseBatch, through the return
ReadResponseBatch ==
    /\ pc = "reading"
    /\ fn = "ReadResponseBatch"
    /\ responseCount < maxResponses
    /\ \E o \in ReadOutcomes :
          LET exit == LoopExit(o)
              st == BatchProcess(Locals, o.b, Len(delivered) + 1)
          IN  /\ TakeRead(o)
              /\ IF exit = "none"
                 THEN IF st.count >= maxResponses
                      THEN /\ ReturnResults(st, "limit")
                           /\ previousByte' = o.b
                      ELSE Continue(st, o.b)
                 ELSE IF exit = "ioerr"
                 THEN ReturnError
                 ELSE /\ ReturnResults(Locals, exit)
                      /\ UNCHANGED previousByte
              /\ twin' = IF exit = "none"
                         THEN RRProcess(twin, o.b, Len(delivered) + 1)
                         ELSE twin
    /\ UNCHANGED <<fn, segs, maxResponses, sessions, resumed, harness>>

Next ==
    \/ \E seg \in Segments : DeviceSend(seg)
    \/ \E f \in Functions :
          \E m \in (IF f = "ReadResponseBatch" THEN 0..MaxBatch ELSE {0}) : Call(f, m)
    \/ ReadResponseWithTypes
    \/ ReadResponse
    \/ ReadResponseBatch

Spec == Init /\ [][Next]_vars

\* the behaviours in which the caller calls more than once
SessionNext ==
    \/ \E seg \in Segments : DeviceSend(seg)
    \/ \E f \in Functions :
          \E m \in (IF f = "ReadResponseBatch" THEN 0..MaxBatch ELSE {0}) : Call(f, m)
    \/ \E f \in Functions :
          \E m \in (IF f = "ReadResponseBatch" THEN 0..MaxBatch ELSE {0}) : CallAgain(f, m)
    \/ ReadResponseWithTypes
    \/ ReadResponse
    \/ ReadResponseBatch

SessionSpec == Init /\ [][SessionNext]_vars

\* ReadTextResponse and ReadProtobufResponse once the ReadResponseWithTypes
\* call they make has returned: (nil, err) or the projection of its result
ReadTextResponse ==
    IF retErr # "nil" THEN [val |-> <<>>, err |-> retErr]
    ELSE [val |-> TextMessages, err |-> "nil"]

ReadProtobufResponse ==
    IF retErr # "nil" THEN [val |-> <<>>, err |-> retErr]
    ELSE [val |-> ProtobufPackets, err |-> "nil"]

\* "AB" repeated to n bytes: no byte equals the byte before it
Alternating(n) == [i \in 1..n |-> IF i % 2 = 1 THEN 65 ELSE 66]

\* chunks of a stream that holds more bytes than the largest frame
LongSegments ==
    { sendPacket(<<>>),                         \* a header with length 0
      sendPacket(<<8, 1>>),                     \* a frame, payload {id: 1}
      Alternating(maxToFromRadioSzie + 1) }     \* 513 bytes without a frame

\* the behaviours in which the device sends long chunks
LongNext ==
    \/ \E seg \in LongSegments : DeviceSend(seg)
    \/ \E f \in Functions :
          \E m \in (IF f = "ReadResponseBatch" THEN 0..MaxBatch ELSE {0}) : Call(f, m)
    \/ ReadResponseWithTypes
    \/ ReadResponse
    \/ ReadResponseBatch

LongSpec == Init /\ [][LongNext]_vars

----------------------------------------------------------------------------
(* The classifier on its own: a byte sequence is put together from tokens and  *)
(* isTextData is applied to it.                                                *)

TextTokens ==
    { <<0>>, <<65>>, <<LF>>, <<ESC>>, <<91>>, <<start1>>,
      <<73, 78, 70>>,                    \* "INF"
      <<79>>,                            \* "O"
      <<73, 78, 70, 79>>,                \* "INFO"
      <<ESC, 91>>,                       \* ESC "["
      <<124, 32, 49, 50, 58>>,           \* "| 12:"
      <<124, 32, 48, 57, 58>>,           \* "| 09:"
      <<49, 50, 58>>,                    \* "12:"
      <<49, 50, 58, 50, 50, 58, 52, 55>>, \* "12:22:47"
      <<124, 32>>,                       \* "| "
      <<195, 169>> }                     \* U+00E9, a printable two-byte character

main == <<fn, pc, pending, segs, delivered, processedBytes, procPos, textBuffer,
          textPos, repeatByteCounter, previousByte, ProtobufPackets, TextMessages,
          AllResponses, maxResponses, responseCount, cause, lastRead, retNil,
          retErr, logLeftover, frameRaw, textSeen, twin, sessions,
          resumed>>

TextAppend(tok) ==
    /\ tphase = "build"
    /\ tcount < MaxTokens
    /\ tdata' = tdata \o tok
    /\ tcount' = tcount + 1
    /\ UNCHANGED <<tphase, tresult, tlines, tclean, tagain, tkept, packetH,
                   codecH, infoH, main>>

Classify ==
    /\ tphase = "build"
    /\ tphase' = "classified"
    /\ tresult' = isTextData(tdata)
    /\ tlines' = extractTextFromBytes(tdata)
    /\ tclean' = cleanANSIEscapeSequences(tdata)
    /\ tagain' = cleanANSIEscapeSequences(cleanANSIEscapeSequences(tdata))
    /\ tkept' = isPrintableText(StringRunes(tdata, 1))
    /\ UNCHANGED <<tdata, tcount, packetH, codecH, infoH, main>>

TextNext ==
    \/ \E tok \in TextTokens : TextAppend(tok)
    \/ Classify

TextSpec == Init /\ [][TextNext]_vars

----------------------------------------------------------------------------
(* Harness of validatePacketStructure: a slice is built from parts, then     *)
(* validated                                                                *)

PacketParts ==
    { <<start1, start2>>, <<start1>>, <<0>>, <<1>>, <<2>>, <<65>>, Run(65, 256) }

PacketAppend(part) ==
    /\ vphase = "build"
    /\ vcount < MaxParts
    /\ vpacket' = vpacket \o part
    /\ vcount' = vcount + 1
    /\ UNCHANGED <<vphase, verr, vlen, textH, codecH, infoH, main>>

Validate ==
    /\ vphase = "build"
    /\ vphase' = "validated"
    /\ verr' = validatePacketStructure(vpacket)
    /\ vlen' = IF Len(vpacket) >= headerLen /\ vpacket[1] = start1 /\ vpacket[2] = start2
               THEN expectedLength(vpacket) ELSE -1
    /\ UNCHANGED <<vpacket, vcount, textH, codecH, infoH, main>>

PacketNext ==
    \/ \E part \in PacketParts : PacketAppend(part)
    \/ Validate

PacketSpec == Init /\ [][PacketNext]_vars

----------------------------------------------------------------------------
(* Harness of the message codec: one encoder call or one received text, then *)
(* ParseMessage on the result                                                *)

ReplyIDs == { <<109, 49>>, <<>> }                        \* "m1", ""
ReplyTexts ==
    { <<72, 105>>,                                       \* "Hi"
      <<97, 125>>,                                       \* "a}"
      <<SP, 72, 105>>,                                   \* " Hi"
      <<97, LF, 98>>,                                    \* "a\nb"
      Run(128512, 50) }                                  \* 50 times U+1F600: 200 bytes
Authors == { <<65, 108>>, <<65, 58, SP, 98>> }           \* "Al", "A: b"
Bodies ==
    { <<111, 107>>,                                      \* "ok"
      <<SP, 111, 107, SP>>,                              \* " ok "
      <<>>,
      <<121, LF, 122>>,                                  \* "y\nz"
      Run(128512, 49) \o <<111, 107>>,                   \* 198 bytes
      Run(128512, 49) \o <<111, 107, 121>>,              \* 199 bytes
      Run(128512, 50) }                                  \* 200 bytes
MessageIDs == { <<109, 49>>, <<97, 125>>, Run(128512, 58) }  \* "m1", "a}", 232 bytes
Emojis == (enhancedGlyphs \ {replyGlyph}) \cup { <<128077>> }
PlainTexts == { <<104, 105>>, <<>>, <<SP, 104, 105>> }   \* "hi", "", " hi"
GlyphTexts ==
    { replyGlyph \o <<123, 125, SP, 104, 105>>,          \* glyph "{} hi"
      thumbsGlyph \o <<123, 34, 116, 34, 58, 34>> \o REPLY
          \o <<34, 44, 34, 101, 34, 58, 34, 120, 34, 125>>,
                                                         \* glyph {"t":"reply","e":"x"}
      legacyGlyph \o <<SP, 104, 105>>,                   \* legacy glyph " hi"
      fireGlyph }                                        \* a glyph alone
ReceivedTexts ==
    { simpleReaction(id, e) : id \in MessageIDs, e \in Emojis }
        \cup PlainTexts \cup GlyphTexts

FormatReply(id, text, author, body) ==
    /\ cphase = "start"
    /\ cphase' = "formatted"
    /\ cin' = CodecInput("reply", id, text, author, body, <<>>)
    /\ cmsg' = FormatReplyMessage(id, text, author, body)
    /\ UNCHANGED <<cparsed, textH, packetH, infoH, main>>

FormatReaction(id, emoji) ==
    /\ cphase = "start"
    /\ cphase' = "formatted"
    /\ cin' = CodecInput("reaction", id, <<>>, <<>>, <<>>, emoji)
    /\ cmsg' = FormatReactionMessage(id, emoji)
    /\ UNCHANGED <<cparsed, textH, packetH, infoH, main>>

Receive(text) ==
    /\ cphase = "start"
    /\ cphase' = "formatted"
    /\ cin' = CodecInput("receive", <<>>, text, <<>>, <<>>, <<>>)
    /\ cmsg' = text
    /\ UNCHANGED <<cparsed, textH, packetH, infoH, main>>

Parse ==
    /\ cphase = "formatted"
    /\ cphase' = "parsed"
    /\ cparsed' = ParseMessage(cmsg)
    /\ UNCHANGED <<cin, cmsg, textH, packetH, infoH, main>>

CodecNext ==
    \/ \E id \in ReplyIDs, text \in ReplyTexts, author \in Authors, body \in Bodies :
          FormatReply(id, text, author, body)
    \/ \E id \in MessageIDs, emoji \in Emojis : FormatReaction(id, emoji)
    \/ \E text \in ReceivedTexts : Receive(text)
    \/ Parse

CodecSpec == Init /\ [][CodecNext]_vars

----------------------------------------------------------------------------
(* GetRadioInfo: one request, then ReadResponse until a call yields frames *)

\* the retry bound of "for checks < 5 && len(radioResponses) == 0"
maxChecks == 5

\* what a call of ReadResponse returns: (nil, err) or (frames, nil)
ReadResults ==
    {[n |-> 0, err |-> "ioerr"]} \cup {[n |-> k, err |-> "nil"] : k \in 0..MaxFrames}

\* what sendPacket returns
SendResults == {"nil", "senderr"}

\* "return nil, e" and "return" with the named results
InfoReturn(n, e) ==
    /\ gpc' = "returned"
    /\ infoRet' = [n |-> n, err |-> e]

\* err = r.sendPacket(out); if err != nil { return nil, err }; checks := 0
GetRadioInfoSend(e) ==
    /\ gpc = "start"
    /\ err' = e
    /\ checks' = 0
    /\ IF e # "nil"
       THEN InfoReturn(0, e)
       ELSE gpc' = "initial" /\ UNCHANGED infoRet
    /\ UNCHANGED <<radioResponses, reads, textH, packetH, codecH, main>>

\* radioResponses, err = r.ReadResponse(true); if err != nil { return nil, err }
GetRadioInfoInitialRead(res) ==
    /\ gpc = "initial"
    /\ reads' = Append(reads, res)
    /\ radioResponses' = res.n
    /\ err' = res.err
    /\ IF res.err # "nil"
       THEN InfoReturn(0, res.err)
       ELSE gpc' = "loop" /\ UNCHANGED infoRet
    /\ UNCHANGED <<checks, textH, packetH, codecH, main>>

\* a retry that returns the error of a failed read at once
GetRadioInfoRetryReturning(res) ==
    /\ gpc = "loop"
    /\ checks < maxChecks /\ radioResponses = 0
    /\ reads' = Append(reads, res)
    /\ radioResponses' = res.n
    /\ err' = res.err
    /\ checks' = checks + 1
    /\ IF res.err # "nil"
       THEN InfoReturn(0, res.err)
       ELSE UNCHANGED <<gpc, infoRet>>
    /\ UNCHANGED <<textH, packetH, codecH, main>>

\* one iteration of the retry loop: a failed read and a read without frames
\* both count as an attempt
GetRadioInfoRetry(res) ==
    /\ gpc = "loop"
    /\ checks < maxChecks /\ radioResponses = 0
    /\ reads' = Append(reads, res)
    /\ radioResponses' = res.n
    /\ err' = res.err
    /\ checks' = checks + 1
    /\ UNCHANGED <<gpc, infoRet, textH, packetH, codecH, main>>

\* the code after the loop
GetRadioInfoReturn ==
    /\ gpc = "loop"
    /\ ~(checks < maxChecks /\ radioResponses = 0)
    /\ IF radioResponses = 0
       THEN InfoReturn(0, "noinfo")
       ELSE InfoReturn(radioResponses, err)
    /\ UNCHANGED <<checks, radioResponses, err, reads, textH, packetH, codecH, main>>

InfoNext ==
    \/ \E e \in SendResults : GetRadioInfoSend(e)
    \/ \E res \in ReadResults : GetRadioInfoInitialRead(res)
    \/ \E res \in ReadResults : GetRadioInfoRetry(res)
    \/ GetRadioInfoReturn

\* GetRadioInfo is sequential code: it takes its next step whenever it has one
InfoSpec == Init /\ [][InfoNext]_vars /\ WF_vars(InfoNext)

----------------------------------------------------------------------------
(* Properties *)

WT == "ReadResponseWithTypes"
Payload(frame) == SubSeq(frame, headerLen + 1, Len(frame))
GoodFrames == {sendPacket(<<8, 1>>), sendPacket(<<8, 2>>)}
OversizeHeader == <<start1, start2, 2, 1>>

\* d is magic, the 16-bit big-endian length of p, and p, for a payload p of at
\* most 512 bytes that the codec decodes
IsFrameOfDecodablePayload(d) ==
    /\ Len(d) >= headerLen
    /\ d[1] = start1 /\ d[2] = start2
    /\ d[3] * 256 + d[4] = Len(d) - headerLen
    /\ Len(d) - headerLen <= maxToFromRadioSzie
    /\ Unmarshal(Payload(d)).ok

\* C1: frame round-trip.  When a ReadResponseWithTypes session has read exactly
\* the header of a decodable payload p (0 to 512 bytes) followed by p and then
\* met end-of-stream, it returns exactly one frame, whose payload is p, and no
\* text line.
C1_FrameRoundTrip ==
    (pc = "done" /\ fn = WT /\ cause = "eof" /\ IsFrameOfDecodablePayload(delivered))
        => /\ ~retNil
           /\ ProtobufPackets = <<Payload(delivered)>>
           /\ TextMessages = <<>>

\* C2: oversize rejection.  In the three read functions no returned frame was
\* assembled from a header that claims 513 bytes, and when the session has
\* read that header followed by a well-formed decodable frame and then met
\* end-of-stream, that frame is returned.
C2_OversizeRejected ==
    /\ \A k \in 1..Len(frameRaw) :
          SubSeq(frameRaw[k].bytes, 1, headerLen) # OversizeHeader
    /\ \A F \in GoodFrames :
          (pc = "done" /\ cause = "eof" /\ delivered = OversizeHeader \o F)
              => ProtobufPackets = <<Payload(F)>>

\* C3: false-header immunity.  ReadResponseWithTypes never returns as a
\* protobuf frame a byte run of 8 bytes or more that begins with the magic and
\* whose bytes from offset 4 on satisfy isTextData.
C3_FalseHeaderImmunity ==
    \A k \in 1..Len(AllResponses) :
        AllResponses[k].Type = "protobuf"
            => ~isLikelyFalsePacketHeader(AllResponses[k].RawBytes)

MalformedCandidates ==
    {<<start1, 65>>, OversizeHeader, sendPacket(<<255>>)}

\* C4: resynchronisation.  When a ReadResponseWithTypes or ReadResponse
\* session has read a malformed candidate frame (START1 and a byte other than
\* START2, an oversize header, or a frame whose payload does not decode)
\* followed by a well-formed decodable frame and then met end-of-stream, it
\* returns without error, with an empty accumulation buffer, and returns that
\* frame.
C4_Resynchronises ==
    \A M \in MalformedCandidates, F \in GoodFrames :
        (pc = "done" /\ fn \in {WT, "ReadResponse"} /\ cause = "eof"
            /\ delivered = M \o F)
            => /\ retErr = "nil"
               /\ processedBytes = <<>>
               /\ ProtobufPackets = <<Payload(F)>>

\* C5: transport errors are surfaced.  A call whose last read failed with an
\* error other than end-of-stream and deadline-exceeded returns a nil result
\* and that error.
C5_ReadErrorSurfaced ==
    (pc = "done" /\ lastRead = "ioerr") => (retNil /\ retErr = "ioerr")

\* the last n bytes read are n copies of one value
LastEqual(n) ==
    /\ Len(delivered) >= n
    /\ \A k \in (Len(delivered) - n + 1)..Len(delivered) :
          delivered[k] = delivered[Len(delivered)]

\* C6: idle detection is exact.  A session that ends on the repeated-byte rule
\* at a newly read byte has read that byte after more than 20 consecutive
\* repeats of its value (the last 22 bytes read are equal), and a session that
\* is still reading has not.
C6_IdleDetectionExact ==
    /\ (pc = "done" /\ cause = "repeat" /\ lastRead = "byte")
          => LastEqual(RepeatLimit + 2)
    /\ pc = "reading" => ~LastEqual(RepeatLimit + 2)

FrameIndices == UNION {frameRaw[k].first..frameRaw[k].last : k \in 1..Len(frameRaw)}

\* C7: no byte is dropped.  When ReadResponseWithTypes returns its results, the
\* bytes left in the accumulation buffer are the ones reported as unprocessed,
\* and every byte read in the session is part of a returned frame, was put
\* into the text run, or is among those reported bytes.
C7_NoByteDropped ==
    (pc = "done" /\ fn = WT /\ ~retNil)
        => /\ logLeftover = processedBytes
           /\ \A i \in 1..Len(delivered) :
                 i \in FrameIndices \cup textSeen \cup Range(procPos)

\* C8: arrival order.  In AllResponses a text line all of whose bytes were read
\* before the first byte of a frame precedes that frame, and a text line whose
\* bytes were read after the last byte of a frame follows it.
C8_ArrivalOrder ==
    \A i, j \in 1..Len(AllResponses) :
        (AllResponses[i].Type = "text" /\ AllResponses[j].Type = "protobuf")
            => /\ AllResponses[i].last < AllResponses[j].first => i < j
               /\ AllResponses[i].first > AllResponses[j].last => i > j

\* the lines the end of a session owes for the text run
OwedLines(run) ==
    IF run # <<>> /\ isTextData(run) THEN extractTextFromBytes(run) ELSE <<>>

\* C9: session-end flush.  The step in which ReadResponseWithTypes leaves its
\* loop and returns its results appends to TextMessages and to AllResponses, in
\* order, exactly the lines extractTextFromBytes yields from the pending text
\* run when the run satisfies isTextData, and nothing when it does not.
C9_SessionEndFlush ==
    [][(fn = WT /\ pc = "reading" /\ pc' = "done" /\ ~retNil')
        => LET lines == OwedLines(textBuffer)
               n == Len(AllResponses)
           IN  /\ TextMessages' = TextMessages \o lines
               /\ Len(AllResponses') = n + Len(lines)
               /\ SubSeq(AllResponses', 1, n) = AllResponses
               /\ \A k \in 1..Len(lines) :
                     /\ AllResponses'[n + k].Type = "text"
                     /\ AllResponses'[n + k].TextData = lines[k]
               /\ ProtobufPackets' = ProtobufPackets]_vars

\* a session has ended on a text run that satisfies isTextData and yields
\* lines, and they are the last entries of the results
C9_Witness ==
    /\ pc = "done" /\ fn = WT /\ ~retNil
    /\ isTextData(textBuffer)
    /\ extractTextFromBytes(textBuffer) # <<>>
    /\ Len(TextMessages) >= Len(extractTextFromBytes(textBuffer))
    /\ Last(AllResponses).Type = "text"

\* the fixed diagnostic markers: the level tags, the console-subsystem tags,
\* the ANSI introducer, and the timestamps "| HH:" for the hours 12 to 23
DiagnosticMarkers ==
    { <<68, 69, 66, 85, 71>>, <<73, 78, 70, 79>>, <<87, 65, 82, 78>>,
      <<69, 82, 82, 79, 82>>, <<84, 82, 65, 67, 69>>,
      <<83, 101, 114, 105, 97, 108, 67, 111, 110, 115, 111, 108, 101>>,
      <<83, 101, 110, 100, 32, 107, 110, 111, 119, 110, 32, 110, 111, 100, 101,
        115>>,
      <<ESC, 91>> }
        \cup {<<124, SP, 48 + (h \div 10), 48 + (h % 10), 58>> : h \in 12..23}

NoMarker(data) == \A m \in DiagnosticMarkers : ~Contains(data, m)

IsPrintableAscii(b) == (b >= 32 /\ b <= 126) \/ b = LF \/ b = CR \/ b = TAB

PrintableAsciiCount(data) ==
    Cardinality({i \in 1..Len(data) : IsPrintableAscii(data[i])})

\* C11: the 50% rule.  For a buffer that contains a diagnostic marker,
\* isTextData is true exactly when at least half of its bytes are printable,
\* the case of exactly half included.
C11_AtLeastHalfPrintable ==
    (tphase = "classified" /\ tdata # <<>> /\ ~NoMarker(tdata))
        => (tresult <=> 2 * PrintableAsciiCount(tdata) >= Len(tdata))

\* C12: extractTextFromBytes requires a marker.  For an input that contains
\* no diagnostic marker it returns no line.
C12_NoMarkerNoLine ==
    (tphase = "classified" /\ NoMarker(tdata)) => tlines = <<>>

TimePattern == <<49, 50, 58, 50, 50, 58, 52, 55>>
PipeSpace == <<124, SP>>

C14_StripIdempotent ==
    tphase = "classified" => tagain = tclean

\* a classified input with an escape introducer from which stripping removed
\* bytes and left some
C14_Witness ==
    /\ tphase = "classified"
    /\ Contains(tdata, <<ESC, 91>>)
    /\ tclean # tdata
    /\ tclean # <<>>
    /\ tagain = tclean

\* the reference validator: bytes 2-3 read as a 16-bit big-endian length
expectedLengthWide(packet) == packet[3] * 256 + packet[4]

validateWide(packet) ==
    IF Len(packet) < headerLen THEN "too short"
    ELSE IF packet[1] # start1 \/ packet[2] # start2 THEN "bad magic"
    ELSE IF Len(packet) - headerLen # expectedLengthWide(packet) THEN "length mismatch"
    ELSE IF expectedLengthWide(packet) > maxToFromRadioSzie THEN "too large"
    ELSE "nil"

\* C15: validatePacketStructure agrees with the reference validator, which
\* reads bytes 2-3 as a 16-bit big-endian length: same verdict and same
\* failure on every slice.
C15_AgreesWithReference ==
    vphase = "validated" => verr = validateWide(vpacket)

\* C16: the payload length derived from header bytes 2 and 3, in
\* validatePacketStructure and in the read loops, is lenHi*256 + lenLo.
C16_LengthIs16Bit ==
    (vphase = "validated" /\ vlen # -1)
        => /\ vlen = vpacket[3] * 256 + vpacket[4]
           /\ PacketLength(vpacket) = vpacket[3] * 256 + vpacket[4]

\* the call returned the enhanced reply form
ReturnedEnhancedReply ==
    /\ cin.op = "reply"
    /\ ByteLen(enhancedReply(cin.id, cin.text, cin.body)) <= maxEnhancedLen

\* C17: reply round-trip.  Whenever FormatReplyMessage returned the enhanced
\* form, ParseMessage of it has Format "enhanced", IsReply holds,
\* ExtractReplyMetadata returns (replyToID, replyToText, true) and
\* GetDisplayText returns bodyText trimmed.
C17_ReplyRoundTrip ==
    (cphase = "parsed" /\ ReturnedEnhancedReply)
        => /\ cparsed.Format = "enhanced"
           /\ IsReply(cparsed)
           /\ ExtractReplyMetadata(cparsed)
                 = [replyToID |-> cin.id, replyToText |-> cin.text, ok |-> TRUE]
           /\ GetDisplayText(cparsed) = TrimSpaceStr(cin.body)

\* the candidate of a reply: glyph, serialized metadata, body, no separator
ReplyCandidate ==
    replyGlyph \o jsonMarshal(MessageMetadata(cin.id, REPLY, <<>>, cin.text))
        \o cin.body

\* the legacy form: glyph, " @", author, ": ", reply text, blank line, body
ReplyLegacy ==
    legacyGlyph \o <<SP, 64>> \o cin.author \o <<58, SP>> \o cin.text
        \o <<LF, LF>> \o cin.body

\* C18: the size rule of FormatReplyMessage.  It returns the enhanced
\* candidate exactly when the candidate is at most 240 bytes long and the
\* legacy form otherwise, so a result that begins with the reply-indicator
\* glyph is at most 240 bytes long.
C18_EnhancedIffFits ==
    (cphase # "start" /\ cin.op = "reply")
        => /\ ByteLen(ReplyCandidate) <= 240 => cmsg = ReplyCandidate
           /\ ByteLen(ReplyCandidate) > 240 => cmsg = ReplyLegacy
           /\ HasPrefix(cmsg, replyGlyph) => ByteLen(cmsg) <= 240

\* a reply whose candidate is exactly 240 bytes long was returned in the
\* enhanced form, with the keys r, t and rt
C18_Witness ==
    /\ cphase = "formatted" /\ cin.op = "reply"
    /\ ByteLen(cmsg) = 240
    /\ HasPrefix(cmsg, replyGlyph)
    /\ Contains(cmsg, <<123, 34, 114, 34, 58, 34, 109, 49, 34, 44,
                        34, 116, 34, 58, 34, 114, 101, 112, 108, 121, 34, 44,
                        34, 114, 116, 34, 58, 34, 72, 105, 34, 125>>)

\* C19: legacy round-trip.  Whenever FormatReplyMessage returned the legacy
\* form, ParseMessage of it has Format "ios", IsReply holds, the metadata
\* carries replyToText and no reply id, and GetDisplayText returns bodyText.
C19_LegacyRoundTrip ==
    (cphase = "parsed" /\ cin.op = "reply" /\ ~ReturnedEnhancedReply)
        => /\ cparsed.Format = "ios"
           /\ IsReply(cparsed)
           /\ ExtractReplyMetadata(cparsed)
                 = [replyToID |-> <<>>, replyToText |-> cin.text, ok |-> TRUE]
           /\ GetDisplayText(cparsed) = cin.body

RecognizedEmojis == enhancedGlyphs \ {replyGlyph}

\* C20: reaction round-trip.  For every recognized emoji and every message
\* id, ParseMessage of FormatReactionMessage's result and of emoji "::" id
\* are reactions from which ExtractReactionMetadata returns (id, emoji, true);
\* the first has Format "enhanced" when the encoder chose the enhanced form,
\* the second has Format "simple".
C20_ReactionRoundTrip ==
    /\ (cphase = "parsed" /\ cin.op = "reaction" /\ cin.emoji \in RecognizedEmojis)
          => /\ IsReaction(cparsed)
             /\ ExtractReactionMetadata(cparsed)
                   = [messageID |-> cin.id, emoji |-> cin.emoji, ok |-> TRUE]
             /\ cmsg = enhancedReaction(cin.id, cin.emoji)
                   => cparsed.Format = "enhanced"
    /\ \A id \in MessageIDs, e \in RecognizedEmojis :
          (cphase = "parsed" /\ cin.op = "receive" /\ cmsg = e \o <<58, 58>> \o id)
              => /\ IsReaction(cparsed)
                 /\ ExtractReactionMetadata(cparsed)
                       = [messageID |-> id, emoji |-> e, ok |-> TRUE]
                 /\ cparsed.Format = "simple"

Batch == "ReadResponseBatch"
RR == "ReadResponse"

\* C23: the batch limit.  ReadResponseBatch never holds more than maxResponses
\* frames; its loop is over, with nothing read afterwards, as soon as it holds
\* maxResponses of them, and the byte read last is then the last byte of the
\* last frame when that frame has a payload; with maxResponses <= 0 it reads
\* nothing and returns no frame.
C23_BatchLimit ==
    fn = Batch
        => /\ responseCount = Len(ProtobufPackets)
           /\ Len(ProtobufPackets) <= (IF maxResponses > 0 THEN maxResponses ELSE 0)
           /\ (Len(ProtobufPackets) >= maxResponses)
                 => (pc = "done" /\ cause = "limit" /\ ~retNil)
           /\ (Len(ProtobufPackets) >= maxResponses /\ maxResponses > 0
                 /\ Len(Last(frameRaw).bytes) > headerLen)
                 => Last(frameRaw).last = Len(delivered)
           /\ (maxResponses <= 0) => (delivered = <<>> /\ ProtobufPackets = <<>>)

\* the second of two frames was assembled with maxResponses = 2 and the call
\* returned
C23_Witness ==
    /\ fn = Batch
    /\ pc = "done"
    /\ cause = "limit"
    /\ maxResponses = 2
    /\ Len(ProtobufPackets) = 2
    /\ Last(frameRaw).last = Len(delivered)

\* C24: ReadResponseBatch returns what ReadResponse returns.  When a
\* ReadResponseBatch session has ended on its stream (end-of-stream, deadline
\* or repeated byte) and maxResponses is at least the number of frames
\* ReadResponse assembles from the bytes read, the frames of both are the same
\* sequence.
C24_BatchMatchesReadResponse ==
    (fn = Batch /\ pc = "done" /\ cause \in {"eof", "deadline", "repeat"}
        /\ maxResponses >= Len(twin.pkts))
        => ProtobufPackets = twin.pkts

\* a step of ReadResponseWithTypes or ReadResponse that reads a byte and ends
\* the frame in progress: a frame is emitted, or the buffer held bytes and
\* either the text run grew or the buffer did not
TerminalStep ==
    /\ fn \in {WT, RR}
    /\ pc = "reading" /\ pc' = "reading"
    /\ Len(delivered') = Len(delivered) + 1
    /\ \/ Len(ProtobufPackets') > Len(ProtobufPackets)
       \/ /\ processedBytes # <<>>
          /\ \/ Len(textBuffer') > Len(textBuffer)
             \/ Len(processedBytes') <= Len(processedBytes)

C26_NoCarryOver ==
    /\ (pc = "reading" /\ lastRead = "none")
          => /\ processedBytes = <<>>
             /\ textBuffer = <<>>
             /\ repeatByteCounter = 0
             /\ previousByte = 0
             /\ ProtobufPackets = <<>>
             /\ TextMessages = <<>>
             /\ AllResponses = <<>>
    /\ Len(processedBytes) = Len(procPos)
    /\ \A k \in 1..Len(procPos) :
          /\ procPos[k] \in 1..Len(delivered)
          /\ processedBytes[k] = delivered[procPos[k]]
    /\ Len(textBuffer) = Len(textPos)
    /\ \A k \in 1..Len(textPos) :
          /\ textPos[k] \in 1..Len(delivered)
          /\ textBuffer[k] = delivered[textPos[k]]
    /\ \A k \in 1..Len(frameRaw) :
          /\ 1 <= frameRaw[k].first
          /\ frameRaw[k].last <= Len(delivered)
          /\ frameRaw[k].bytes = SubSeq(delivered, frameRaw[k].first, frameRaw[k].last)

\* a call that followed one cut off in the middle of a frame has read the
\* rest of that frame, the payload, and returned no frame
C26_Witness ==
    /\ resumed
    /\ sessions = 2
    /\ pc = "done"
    /\ retErr = "nil"
    /\ delivered = <<8, 1>>
    /\ ProtobufPackets = <<>>

\* C27: in ReadResponseWithTypes the text run is empty once a START1 read in
\* Idle has started a frame, whatever the run held.
C27_TextRunClearedAtFrameStart ==
    (fn = WT /\ pc = "reading" /\ processedBytes = <<start1>>)
        => textBuffer = <<>>

\* C28: a START1 followed at once by a well-formed decodable frame.  When a
\* ReadResponseWithTypes or ReadResponse session has read START1, then such a
\* frame, and has returned, it returns that frame.
C28_StrayStartThenFrame ==
    \A F \in GoodFrames :
        (fn \in {WT, RR} /\ pc = "done" /\ ~retNil
            /\ delivered = <<start1>> \o F)
            => ProtobufPackets = <<Payload(F)>>

\* C29: a header with length 0.  In ReadResponseWithTypes and ReadResponse no
\* frame with an empty payload is returned, the buffer is empty as soon as
\* the four bytes 94 C3 00 00 have been read, and a well-formed decodable
\* frame that follows them is returned.
C29_ZeroLengthTakenAsText ==
    fn \in {WT, RR}
        => /\ \A k \in 1..Len(frameRaw) : Len(frameRaw[k].bytes) > headerLen
           /\ (pc = "reading" /\ delivered = sendPacket(<<>>))
                 => processedBytes = <<>>
           /\ \A F \in GoodFrames :
                 (pc = "done" /\ ~retNil /\ delivered = sendPacket(<<>>) \o F)
                     => ProtobufPackets = <<Payload(F)>>

\* the buffer and the byte read complete a frame (magic, 16-bit length,
\* payload of that length) whose payload does not decode
CompletesUndecodable(full) ==
    /\ Len(full) > headerLen
    /\ full[1] = start1 /\ full[2] = start2
    /\ full[3] * 256 + full[4] = Len(full) - headerLen
    /\ ~Unmarshal(Payload(full)).ok

HourPattern(h) == <<124, SP, 48 + (h \div 10), 48 + (h % 10), 58>>

\* C31: every two-digit hour is a marker.  isTextData is true for a buffer of
\* printable bytes that contains "| HH:", for each HH from 00 to 23.
C31_EveryHourIsMarker ==
    \A h \in 0..23 :
        (/\ tphase = "classified"
         /\ \A i \in 1..Len(tdata) : IsTextByte(tdata[i])
         /\ Contains(tdata, HourPattern(h)))
            => tresult = TRUE

\* C32: the 80% rule counts characters.  isPrintableText keeps a non-empty
\* line of valid UTF-8 exactly when at least 80% of its characters are
\* printable glyphs, spaces or tabs.
C32_KeptIffEightyPercentOfChars ==
    LET line == StringRunes(tdata, 1)
    IN  (tphase = "classified" /\ tdata # <<>>
            /\ \A i \in 1..Len(line) : line[i] # RuneError)
            => (tkept <=> 5 * printableChars(line) >= 4 * Len(line))

\* C33: a session aborted by a transport error returns nothing but the error.
\* When one of the three read functions has left its loop on a read error,
\* its result is nil and its error is that error, whatever frames and text
\* lines it had assembled.
C33_AbortReturnsNil ==
    (pc = "done" /\ cause = "error")
        => /\ lastRead = "ioerr"
           /\ retNil
           /\ retErr = "ioerr"

\* ReadResponseWithTypes had assembled a frame and a text line when a read
\* failed
C33_Witness ==
    /\ pc = "done"
    /\ cause = "error"
    /\ fn = WT
    /\ ProtobufPackets # <<>>
    /\ TextMessages # <<>>
    /\ retNil

\* a call of ReadResponse that yielded no frame: it failed or returned none
NoFrames(res) == res.n = 0

\* what holds of GetRadioInfo at every point
InfoSafe ==
    /\ Len(reads) <= 1 + maxChecks
    /\ \A k \in 1..(Len(reads) - 1) : NoFrames(reads[k])
    /\ gpc = "returned"
         => /\ (reads # <<>> /\ reads[1].err # "nil")
                 => (Len(reads) = 1 /\ infoRet = [n |-> 0, err |-> reads[1].err])
            /\ (Len(reads) > 1 /\ \A k \in 1..Len(reads) : NoFrames(reads[k]))
                 => (Len(reads) = 1 + maxChecks /\ infoRet.err = "noinfo")
            /\ (infoRet.err # "nil") <=> (\A k \in 1..Len(reads) : NoFrames(reads[k]))
            /\ (infoRet.err = "nil") => (infoRet.n > 0 /\ infoRet.n = Last(reads).n)
            /\ (infoRet.err # "nil") => infoRet.n = 0

\* C34: GetRadioInfo makes at most six ReadResponse calls and returns.  It
\* returns the error of a failed first read at once, goes on after a failed
\* retry, stops at the first call that yields a frame, returns an error
\* exactly when no call yielded a frame, and on success returns a non-empty
\* frame list with a nil error.
C34_BoundedRetries == []InfoSafe /\ <>(gpc = "returned")

\* GetRadioInfo returned frames from its sixth read, after a failed retry
C34_Witness ==
    /\ gpc = "returned"
    /\ Len(reads) = 1 + maxChecks
    /\ \E k \in 2..maxChecks : reads[k].err = "ioerr"
    /\ infoRet.err = "nil"
    /\ infoRet.n > 0

\* C35: the raw bytes of a returned frame are a valid packet.  Every protobuf
\* entry of AllResponses in ReadResponseWithTypes has RawBytes that
\* validatePacketStructure accepts: they begin with 0x94 0xC3, their length
\* field is the number of payload bytes, and the payload has 1 to 512 bytes.
C35_RawBytesValid ==
    fn = WT
        => \A k \in 1..Len(AllResponses) :
              AllResponses[k].Type = "protobuf"
                  => LET raw == AllResponses[k].RawBytes
                     IN  /\ validatePacketStructure(raw) = "nil"
                         /\ raw[1] = start1 /\ raw[2] = start2
                         /\ raw[3] * 256 + raw[4] = Len(raw) - headerLen
                         /\ Len(raw) - headerLen \in 1..maxToFromRadioSzie

\* C36: the buffer is bounded.  In the three read loops the accumulation
\* buffer never holds more than 4 + 512 bytes.
C36_BufferBounded ==
    Len(processedBytes) <= headerLen + maxToFromRadioSzie

ProtobufEntries == SelectSeq(AllResponses, LAMBDA r : r.Type = "protobuf")
TextEntries == SelectSeq(AllResponses, LAMBDA r : r.Type = "text")

\* C37: the typed lists are the projections of AllResponses.  At every point
\* of a ReadResponseWithTypes session ProtobufPackets is the protobuf entries
\* of AllResponses and TextMessages its text entries, in order, AllResponses
\* has no other entry, and ReadTextResponse and ReadProtobufResponse return
\* these lists when the session returns its results.
C37_TypedListsAreProjections ==
    fn = WT
        => /\ ProtobufPackets =
                 [k \in 1..Len(ProtobufEntries) |-> ProtobufEntries[k].ProtobufMsg]
           /\ TextMessages =
                 [k \in 1..Len(TextEntries) |-> TextEntries[k].TextData]
           /\ Len(AllResponses) = Len(ProtobufPackets) + Len(TextMessages)
           /\ (pc = "done" /\ ~retNil)
                 => /\ ReadTextResponse = [val |-> TextMessages, err |-> "nil"]
                    /\ ReadProtobufResponse = [val |-> ProtobufPackets, err |-> "nil"]

\* a session returned a text line between two frames
C37_Witness ==
    /\ fn = WT
    /\ pc = "done"
    /\ ~retNil
    /\ Len(AllResponses) = 3
    /\ AllResponses[1].Type = "protobuf"
    /\ AllResponses[2].Type = "text"
    /\ AllResponses[3].Type = "protobuf"

\* the size check of SendTextMessage: len(message) > 240 is refused
maxMessageLen == 240

\* C38: what the formatters return fits a text message.  Every string
\* FormatReplyMessage or FormatReactionMessage returns, enhanced or fallback,
\* is at most 240 bytes long.
C38_FormattedFits ==
    (cphase = "formatted" /\ cin.op \in {"reply", "reaction"})
        => ByteLen(cmsg) <= maxMessageLen

\* C39: the text handling does not change the frames.  When a
\* ReadResponseWithTypes session returns its results, its frames
\* (ReadProtobufResponse) are the frames ReadResponse assembles from the bytes
\* the session has read.
C39_SameFramesAsReadResponse ==
    (fn = WT /\ pc = "done" /\ ~retNil)
        => ReadProtobufResponse.val = twin.pkts

====
